---- MODULE Spec2Model ----
(***************************************************************************)
(* Model of swscale_bench (main.cpp): the sweep over thread counts in      *)
(* execute(), the worker body thread_target(), the shared atomic work      *)
(* counter and the shared atomic error flag.                               *)
(*                                                                         *)
(* Machine integers are modelled with a reduced width of IntBits bits:     *)
(* `unsigned' is arithmetic modulo 2^IntBits and `int' is its two's        *)
(* complement reading.  The calls into libswscale / libavutil are external *)
(* and may succeed or fail; each outcome is a nondeterministic choice.     *)
(***************************************************************************)
EXTENDS Integers, Sequences, FiniteSets

\* ---------------------------------------------------------------- bounds
\* width in bits of int / unsigned in the model
IntBits == 4
\* largest thread count tried (fixed --threads value or hardware_concurrency)
MaxThreads == 2
\* largest ordinary value of --times tried
MaxTimes == 3

\* ------------------------------------------------------ machine integers
UIntMod == 2 ^ IntBits
IntMax == 2 ^ (IntBits - 1) - 1
IntMin == 0 - 2 ^ (IntBits - 1)

\* unsigned arithmetic: the result is reduced modulo 2^IntBits
ToUnsigned(x) == x % UIntMod

\* static_cast<int>(unsigned): two's complement reading of the bit pattern
\* (what every two's complement build does; the rule of the language since C++20)
ToInt(u) == IF u > IntMax THEN u - UIntMod ELSE u

\* times * n, computed in unsigned
UMul(a, b) == ToUnsigned(a * b)

\* value of the atomic counter after (*counter)--  (atomic arithmetic wraps)
\* faulty variant: the counter is stepped the wrong way
CounterDecMut(c) == ToInt(ToUnsigned(c + 1))
CounterDec(c) == ToInt(ToUnsigned(c - 1))

\* the loop test of thread_target on the pre-decrement value: (old <= 0)
\* faulty variant: the test written as (old < 0)
CounterExhaustedMut(old) == old < 0
CounterExhausted(old) == old <= 0

\* initial value of the local `err' of thread_target
InitErr == 1

\* the test `if (err)' before error->store(err)
\* faulty variant: only negative statuses are stored
ShouldStoreMut(e) == e < 0
\* faulty variant: the store is made unconditionally
ShouldStoreAlways(e) == TRUE
ShouldStore(e) == e # 0

\* non-zero statuses av_frame_get_buffer can return (AVERROR codes)
BufferErrors == {-12}

\* unsigned thread_min = threads ? threads : 1
\* faulty variant: the sweep always starts at 1
ThreadMinMut(t) == 1
ThreadMin(t) == IF t # 0 THEN t ELSE 1

\* unsigned thread_max = threads ? threads : hardware_concurrency()
ThreadMax(t, hw) == IF t # 0 THEN t ELSE hw

\* std::atomic_int counter{ static_cast<int>(times * n) }
\* faulty variant: the product with n is forgotten
InitCounterMut(k, m) == ToInt(ToUnsigned(k))
InitCounter(k, m) == ToInt(UMul(k, m))

Workers == 0 .. (MaxThreads - 1)

VARIABLES
    times,        \* Arguments::times
    threads,      \* Arguments::threads
    mpc,          \* position of main
    exit_code,    \* value returned by main (-1: still running)
    epc,          \* position of execute
    thread_min,   \* execute: thread_min
    thread_max,   \* execute: thread_max
    n,            \* execute: loop variable n
    nn,           \* execute: loop variable nn of the spawn loop
    jn,           \* execute: number of threads of thread_pool joined so far
    counter,      \* execute: std::atomic_int counter
    error,        \* execute: std::atomic_int error
    timer,        \* execute: Timer timer ("idle", "running", "stopped")
    elapsed,      \* execute: what timer.elapsed() returns once the timer is stopped
    fps,          \* execute: the quotient printed by line 120 in this iteration
    wpc,          \* per worker: position in thread_target
    err,          \* per worker: local err
    sws,          \* per worker: local sws      ("null", "live", "freed")
    src_frame,    \* per worker: local src_frame ("null", "alloc", "buf", "freed")
    dst_frame,    \* per worker: local dst_frame ("null", "alloc", "buf", "freed")
    \* ---- history of the run in progress (observations, not program state)
    c0,           \* value the counter of this run was initialised with
    claimedVals,  \* pre-decrement values observed by successful claims
    nclaims,      \* per worker: number of successful claims
    nscale,       \* per worker: number of sws_scale calls made
    exhausted,    \* per worker: left the loop through `break'
    ctorFailed,   \* per worker: construction step that failed (0: none)
    scaleFailed,  \* per worker: a sws_scale call returned < 0
    stored,       \* per worker: executed error->store
    released,     \* per worker: number of times lines 80-82 were executed
    lateScale,    \* per worker: sws_scale called without a live context
    \* ---- history of the sweep
    runs,         \* thread counts of the runs started, in order
    header,       \* the header line has been printed
    reports,      \* report blocks printed, in order
    stderr_log    \* lines written to std::cerr by execute and main

cfgVars == <<times, threads>>
mainVars == <<mpc, exit_code>>
execVars == <<epc, thread_min, thread_max, n, nn, jn, timer, elapsed, fps>>
sharedVars == <<counter, error>>
workerVars == <<wpc, err, sws, src_frame, dst_frame>>
runHist == <<c0, claimedVals, nclaims, nscale, exhausted, ctorFailed,
             scaleFailed, stored, released, lateScale>>
sweepHist == <<runs, header, reports, stderr_log>>
vars == <<cfgVars, mainVars, execVars, sharedVars, workerVars, runHist, sweepHist>>

\* values of --times tried: the ordinary ones and one whose product with n
\* leaves the non-negative range of int
TimesValues == (0 .. MaxTimes) \cup {2 ^ (IntBits - 1)}
\* values --threads can carry in the model (0: not given)
ThreadsValues == 0 .. MaxThreads
\* values std::thread::hardware_concurrency() can return (0: unknown)
HardwareValues == 0 .. MaxThreads

ZeroW == [w \in Workers |-> 0]
FalseW == [w \in Workers |-> FALSE]

\* per-worker locals of thread_target as declared at lines 39-44
NullW == [w \in Workers |-> "null"]
ErrW == [w \in Workers |-> InitErr]
\* no thread of the iteration's thread_pool exists yet
NoThread == [w \in Workers |-> "none"]
\* line 120 has not been executed in this iteration
NoFps == [printed |-> FALSE, finite |-> FALSE, value |-> 0]

Init ==
    /\ times \in TimesValues
    /\ threads \in ThreadsValues
    /\ mpc = "start"
    /\ exit_code = -1
    /\ epc = "none"
    /\ thread_min = 0
    /\ thread_max = 0
    /\ n = 0
    /\ nn = 0
    /\ jn = 0
    /\ counter = 0
    /\ error = 0
    /\ timer = "idle"
    /\ elapsed = 0
    /\ fps = NoFps
    /\ wpc = NoThread
    /\ err = ErrW
    /\ sws = NullW
    /\ src_frame = NullW
    /\ dst_frame = NullW
    /\ c0 = 0
    /\ claimedVals = {}
    /\ nclaims = ZeroW
    /\ nscale = ZeroW
    /\ exhausted = FalseW
    /\ ctorFailed = ZeroW
    /\ scaleFailed = FalseW
    /\ stored = FalseW
    /\ released = ZeroW
    /\ lateScale = FalseW
    /\ runs = <<>>
    /\ header = FALSE
    /\ reports = <<>>
    /\ stderr_log = <<>>


\* ------------------------------------------------------------ thread_target
\* a worker holds everything sws_scale needs
ContextReady(w) ==
    /\ sws[w] = "live"
    /\ src_frame[w] = "buf"
    /\ dst_frame[w] = "buf"

\* how far construction gets when its step `step' fails (0: no step fails):
\* the locals assigned by lines 46, 49, 51, 62 and 64 before the goto fail
SwsAfter(step) == IF step = 1 THEN "null" ELSE "live"
SrcAfter(step) == IF step \in {1, 2} THEN "null" ELSE IF step \in {3, 4} THEN "alloc" ELSE "buf"
DstAfter(step) == IF step \in {1, 2, 3} THEN "null" ELSE IF step \in {4, 5} THEN "alloc" ELSE "buf"

\* value of the local err when construction leaves with step `step' failed and
\* av_frame_get_buffer returned r to that step: lines 44, 62 and 64
ErrAfter(step, r) == IF step \in {1, 2, 3} THEN InitErr ELSE IF step \in {4, 5} THEN r ELSE 0

\* lines 46-65: construction of the worker's context.  Step 1 is sws_getContext,
\* 2 and 3 the two av_frame_alloc, 4 and 5 the two av_frame_get_buffer; the first
\* failing step jumps to fail.  These lines read and write only locals of the
\* thread, so other threads cannot observe their intermediate states.
WConstruct(w) ==
    /\ wpc[w] = "ctx"
    /\ \E step \in 0 .. 5, r \in BufferErrors :
          /\ sws' = [sws EXCEPT ![w] = SwsAfter(step)]
          /\ src_frame' = [src_frame EXCEPT ![w] = SrcAfter(step)]
          /\ dst_frame' = [dst_frame EXCEPT ![w] = DstAfter(step)]
          /\ err' = [err EXCEPT ![w] = ErrAfter(step, r)]
          /\ ctorFailed' = [ctorFailed EXCEPT ![w] = step]
          /\ wpc' = [wpc EXCEPT ![w] = IF step = 0 THEN "loop" ELSE "fail"]
    /\ UNCHANGED <<cfgVars, mainVars, execVars, sharedVars,
                   c0, claimedVals, nclaims, nscale, exhausted, scaleFailed, stored,
                   released, lateScale, sweepHist>>

\* lines 68-69 and 75: if ((*counter)-- <= 0) break;  ... err = 0;
\* the post-decrement is one atomic read-modify-write of the shared counter
WClaim(w) ==
    /\ wpc[w] = "loop"
    /\ counter' = CounterDec(counter)
    /\ IF CounterExhausted(counter)
       THEN /\ exhausted' = [exhausted EXCEPT ![w] = TRUE]
            /\ err' = [err EXCEPT ![w] = 0]
            /\ wpc' = [wpc EXCEPT ![w] = "fail"]
            /\ UNCHANGED <<claimedVals, nclaims>>
       ELSE /\ claimedVals' = claimedVals \cup {counter}
            /\ nclaims' = [nclaims EXCEPT ![w] = @ + 1]
            /\ wpc' = [wpc EXCEPT ![w] = "scale"]
            /\ UNCHANGED <<exhausted, err>>
    /\ UNCHANGED <<cfgVars, mainVars, execVars, error, sws, src_frame, dst_frame,
                   c0, nscale, ctorFailed, scaleFailed, stored, released, lateScale,
                   sweepHist>>

\* where thread_target goes when sws_scale returned < 0: goto fail (line 72)
\* faulty variant: the loop goes on with the next claim
AfterScaleFailureMut == "loop"
AfterScaleFailure == "fail"

\* lines 71-72: if (sws_scale(...) < 0) goto fail;  (err is not assigned)
WScale(w) ==
    /\ wpc[w] = "scale"
    /\ nscale' = [nscale EXCEPT ![w] = @ + 1]
    /\ lateScale' = [lateScale EXCEPT ![w] = @ \/ ~ContextReady(w)]
    /\ \E ok \in BOOLEAN :
          IF ok
          THEN /\ wpc' = [wpc EXCEPT ![w] = "loop"]
               /\ UNCHANGED scaleFailed
          ELSE /\ scaleFailed' = [scaleFailed EXCEPT ![w] = TRUE]
               /\ wpc' = [wpc EXCEPT ![w] = AfterScaleFailure]
    /\ UNCHANGED <<cfgVars, mainVars, execVars, sharedVars, err, sws, src_frame,
                   dst_frame, c0, claimedVals, nclaims, exhausted, ctorFailed, stored,
                   released, sweepHist>>

\* av_frame_free(&f) / sws_freeContext(p): frees what is held, no-op on null
\* faulty variant: nothing is freed
FreedMut(r) == r
Freed(r) == IF r = "null" THEN "null" ELSE "freed"

\* lines 76-83: fail: if (err) error->store(err); av_frame_free(&src_frame);
\* av_frame_free(&dst_frame); sws_freeContext(sws); return.  The store is the
\* only access to shared state.
WExit(w) ==
    /\ wpc[w] = "fail"
    /\ IF ShouldStore(err[w])
       THEN /\ error' = err[w]
            /\ stored' = [stored EXCEPT ![w] = TRUE]
       ELSE UNCHANGED <<error, stored>>
    /\ src_frame' = [src_frame EXCEPT ![w] = Freed(@)]
    /\ dst_frame' = [dst_frame EXCEPT ![w] = Freed(@)]
    /\ sws' = [sws EXCEPT ![w] = Freed(@)]
    /\ released' = [released EXCEPT ![w] = @ + 1]
    /\ wpc' = [wpc EXCEPT ![w] = "done"]
    /\ UNCHANGED <<cfgVars, mainVars, execVars, counter, err,
                   c0, claimedVals, nclaims, nscale, exhausted, ctorFailed, scaleFailed,
                   lateScale, sweepHist>>

\* ------------------------------------------------------------------ execute
\* total over the workers of a per-worker count
RECURSIVE SumTo(_, _)
SumTo(f, k) == IF k = 0 THEN 0 ELSE f[k - 1] + SumTo(f, k - 1)
Total(f) == SumTo(f, MaxThreads)

\* lines 176-178: main calls execute
MainCallExecute ==
    /\ mpc = "start"
    /\ mpc' = "in_execute"
    /\ epc' = "entry"
    /\ UNCHANGED <<cfgVars, exit_code, thread_min, thread_max, n, nn, jn, timer,
                   elapsed, fps, sharedVars, workerVars, runHist, sweepHist>>

\* lines 88-95: thread_min, thread_max, the header line, n = thread_min
\* (hardware_concurrency() is called only when threads is 0)
ExecEntry ==
    /\ epc = "entry"
    /\ \E hw \in (IF threads # 0 THEN {0} ELSE HardwareValues) :
          thread_max' = ThreadMax(threads, hw)
    /\ thread_min' = ThreadMin(threads)
    /\ n' = ThreadMin(threads)
    /\ header' = TRUE
    /\ epc' = "for_test"
    /\ UNCHANGED <<cfgVars, mainVars, nn, jn, timer, elapsed, fps, sharedVars,
                   workerVars, runHist, runs, reports, stderr_log>>

\* the body of the `if (error)' test of line 112, on the flag as read
RunFailed(e) == e # 0

\* where execute goes after `if (error)' was taken: the throw of line 114
\* faulty variant: the loop goes on to the next thread count
AfterFailureMut == "next"
AfterFailure == "thrown"

\* lines 95-101: n <= thread_max; a fresh thread_pool, counter, error and
\* timer for this iteration; timer.start().  Otherwise execute returns.
ExecForTest ==
    /\ epc = "for_test"
    /\ IF n <= thread_max
       THEN /\ counter' = InitCounter(times, n)
            /\ error' = 0
            /\ timer' = "running"
            /\ elapsed' = 0
            /\ fps' = NoFps
            /\ nn' = 0
            /\ jn' = 0
            /\ c0' = InitCounter(times, n)
            /\ wpc' = NoThread
            /\ err' = ErrW
            /\ sws' = NullW
            /\ src_frame' = NullW
            /\ dst_frame' = NullW
            /\ claimedVals' = {}
            /\ nclaims' = ZeroW
            /\ nscale' = ZeroW
            /\ exhausted' = FalseW
            /\ ctorFailed' = ZeroW
            /\ scaleFailed' = FalseW
            /\ stored' = FalseW
            /\ released' = ZeroW
            /\ lateScale' = FalseW
            /\ runs' = Append(runs, n)
            /\ epc' = "spawn"
       ELSE /\ epc' = "returned"
            /\ UNCHANGED <<counter, error, timer, elapsed, fps, nn, jn, workerVars,
                           runHist, runs>>
    /\ UNCHANGED <<cfgVars, mainVars, thread_min, thread_max, n, header, reports,
                   stderr_log>>

\* lines 102-105: thread_pool.emplace_back(thread_target, ..., &counter, &error)
ExecSpawn ==
    /\ epc = "spawn"
    /\ IF nn < n
       THEN /\ wpc' = [wpc EXCEPT ![nn] = "ctx"]
            /\ nn' = nn + 1
            /\ UNCHANGED epc
       ELSE /\ epc' = "join"
            /\ UNCHANGED <<wpc, nn>>
    /\ UNCHANGED <<cfgVars, mainVars, thread_min, thread_max, n, jn, timer, elapsed,
                   fps, sharedVars, err, sws, src_frame, dst_frame, runHist, sweepHist>>

\* th.join() returns once the thread has returned from thread_target
\* faulty variant: join does not wait for the thread
JoinableNoWait(j) == TRUE
\* faulty variant: join waits for a thread that was never started
JoinableNever(j) == wpc[j] = "none"
Joinable(j) == wpc[j] = "done"

\* values Timer::elapsed() can return after stop(), in units of the timer's
\* resolution: 0 when start and stop read the same clock value
ElapsedValues == {0, 1}

\* the quotient printed by line 120: (times * n) / timer.elapsed(), a
\* floating-point division that is made whatever the divisor is
Fps(iters, e) ==
    [printed |-> TRUE, finite |-> e # 0, value |-> IF e # 0 THEN iters \div e ELSE 0]

\* lines 107-110: th.join() for each thread in turn, then timer.stop()
ExecJoin ==
    /\ epc = "join"
    /\ IF jn < n
       THEN /\ Joinable(jn)
            /\ jn' = jn + 1
            /\ UNCHANGED <<epc, timer, elapsed>>
       ELSE /\ timer' = "stopped"
            /\ \E e \in ElapsedValues : elapsed' = e
            /\ epc' = "check"
            /\ UNCHANGED jn
    /\ UNCHANGED <<cfgVars, mainVars, thread_min, thread_max, n, nn, fps, sharedVars,
                   workerVars, runHist, sweepHist>>

\* the report block of lines 117-120 for thread count m: "threads: " << n and
\* "iterations: " << times * n
ReportBlock(m) ==
    [threads |-> m, iterations |-> UMul(times, m)]

\* lines 112-121: if (error) { cerr << "failure: " << error; throw } ;
\* the report block; ++n
ExecCheck ==
    /\ epc = "check"
    /\ IF RunFailed(error)
       THEN /\ stderr_log' = Append(stderr_log, <<"failure", error>>)
            /\ IF AfterFailure = "thrown"
               THEN /\ epc' = "thrown"
                    /\ UNCHANGED n
               ELSE /\ epc' = "for_test"
                    /\ n' = ToUnsigned(n + 1)
            /\ UNCHANGED <<reports, fps>>
       ELSE /\ reports' = Append(reports, ReportBlock(n))
            /\ fps' = Fps(UMul(times, n), elapsed)
            /\ n' = ToUnsigned(n + 1)
            /\ epc' = "for_test"
            /\ UNCHANGED stderr_log
    /\ UNCHANGED <<cfgVars, mainVars, thread_min, thread_max, nn, jn, timer, elapsed,
                   sharedVars, workerVars, runHist, runs, header>>

\* lines 179-181: catch (const std::runtime_error &) { cerr << ...; return 1; }
MainCatch ==
    /\ mpc = "in_execute"
    /\ epc = "thrown"
    /\ stderr_log' = Append(stderr_log, <<"runtime error", "thread target failed">>)
    /\ exit_code' = 1
    /\ mpc' = "done"
    /\ epc' = "unwound"
    /\ UNCHANGED <<cfgVars, thread_min, thread_max, n, nn, jn, timer, elapsed, fps,
                   sharedVars, workerVars, runHist, runs, header, reports>>

\* line 184: return 0
MainReturn ==
    /\ mpc = "in_execute"
    /\ epc = "returned"
    /\ exit_code' = 0
    /\ mpc' = "done"
    /\ UNCHANGED <<cfgVars, execVars, sharedVars, workerVars, runHist, sweepHist>>

Next ==
    \/ MainCallExecute
    \/ ExecEntry
    \/ ExecForTest
    \/ ExecSpawn
    \/ ExecJoin
    \/ ExecCheck
    \/ MainCatch
    \/ MainReturn
    \/ \E w \in Workers : WConstruct(w)
    \/ \E w \in Workers : WClaim(w)
    \/ \E w \in Workers : WScale(w)
    \/ \E w \in Workers : WExit(w)

Spec == Init /\ [][Next]_vars


\* ======================================================================
\* Properties
\* ======================================================================

\* workers of the run in progress
RunWorkers == {w \in Workers : w < n}

\* all threads of the run are joined and the timer is stopped; execute is
\* about to read the error flag (line 112)
Joined == epc = "check"

\* execute has thrown (line 114)
Thrown == epc \in {"thrown", "unwound"}

\* state of the sweep: NotStarted, Running, Completed, Failed
DriverState ==
    IF Thrown THEN "Failed"
    ELSE IF epc = "returned" THEN "Completed"
    ELSE IF epc \in {"spawn", "join", "check"} \/ (epc = "for_test" /\ runs # <<>>)
         THEN "Running"
    ELSE "NotStarted"

NoCtorFailure == \A w \in Workers : ctorFailed[w] = 0
NoScaleFailure == \A w \in Workers : ~scaleFailed[w]

\* C1: with K*N within the non-negative range of the counter and no failing
\* construction or conversion, the workers of a run have together made exactly
\* N*K sws_scale calls once all of them are joined.
C1_ExactlyNK ==
    (Joined /\ NoCtorFailure /\ NoScaleFailure /\ times * n <= IntMax)
        => Total(nscale) = n * times

C1_Witness ==
    /\ Joined
    /\ NoCtorFailure /\ NoScaleFailure
    /\ n = MaxThreads /\ times = MaxTimes
    /\ times * n <= IntMax
    /\ \A w \in RunWorkers : nscale[w] > 0

\* C2: a worker whose sws_scale call failed has stored a non-zero value in the
\* error flag by the time it has terminated, so the run is seen as failed.
C2_ConversionFailureSetsFlag ==
    \A w \in Workers :
        (wpc[w] = "done" /\ scaleFailed[w]) => (stored[w] /\ RunFailed(error))

\* C3: a worker whose construction failed makes no decrement and no conversion
\* and stores the flag before it terminates; the flag is then still set when
\* execute reads it, and execute throws without printing a report block.
C3_CtorFailureState ==
    \A w \in Workers :
        ctorFailed[w] # 0 =>
            /\ nclaims[w] = 0 /\ nscale[w] = 0 /\ ~exhausted[w]
            /\ wpc[w] \in {"fail", "done"}
            /\ wpc[w] = "done" => (stored[w] /\ RunFailed(error))

C3_CtorFailureStep ==
    (Joined /\ ~NoCtorFailure) => (epc' = "thrown" /\ reports' = reports /\ runs' = runs)

C3_CtorFailureFailsRun == []C3_CtorFailureState /\ [][C3_CtorFailureStep]_vars

C3_Witness ==
    /\ Thrown
    /\ n = 2
    /\ ctorFailed[0] # 0
    /\ ctorFailed[1] = 0 /\ nscale[1] > 0 /\ exhausted[1]

\* C4: a run observed as failed makes execute throw; from Failed the sweep never
\* leaves Failed, from Completed it never leaves Completed, and in neither is a
\* run started, a thread spawned or a report printed.
C4_Step ==
    /\ (Joined /\ RunFailed(error)) => DriverState' = "Failed"
    /\ DriverState \in {"Failed", "Completed"} =>
          /\ DriverState' = DriverState
          /\ runs' = runs /\ reports' = reports
          /\ wpc' = wpc /\ counter' = counter /\ error' = error

C4_FailedIsTerminal == [][C4_Step]_vars

C4_Witness ==
    /\ epc = "unwound"
    /\ exit_code = 1
    /\ threads = 0
    /\ runs = <<1>>
    /\ thread_max = MaxThreads

\* C5: runs are started for thread_min, thread_min + 1, ... in this order and
\* every report block is that of the run at the same position; a fixed non-zero
\* thread count T gives the single run T; a sweep that completes has run and
\* reported every count up to thread_max; a sweep that failed has reports
\* exactly for the runs before the failing one, which is the last run started.
RunsExpected == IF thread_max >= thread_min THEN thread_max - thread_min + 1 ELSE 0

C5_SweepOrder ==
    /\ \A i \in 1 .. Len(runs) : runs[i] = thread_min + i - 1
    /\ Len(reports) <= Len(runs)
    /\ \A i \in 1 .. Len(reports) : reports[i].threads = runs[i]
    /\ (threads # 0 /\ runs # <<>>) => runs = <<threads>>
    /\ epc = "returned" =>
          /\ Len(runs) = RunsExpected
          /\ Len(reports) = Len(runs)
          /\ threads # 0 => Len(reports) = 1
          /\ threads = 0 => Len(reports) = thread_max
    /\ Thrown =>
          /\ runs # <<>>
          /\ runs[Len(runs)] = n
          /\ Len(reports) = Len(runs) - 1

C5_Witness ==
    /\ epc = "returned"
    /\ threads = 0
    /\ thread_max = MaxThreads
    /\ Len(reports) = MaxThreads

\* C6: after a report block is printed, its iteration count is the number of
\* sws_scale calls the workers of that run made.
C6_ReportedIterationsAreCalls ==
    (epc = "for_test" /\ reports # <<>> /\ Len(reports) = Len(runs))
        => reports[Len(reports)].iterations = Total(nscale)

\* C7: with times = 0 no worker ever claims a unit or calls sws_scale; a worker
\* whose construction succeeded leaves at its first counter test; and when all
\* constructions succeeded the flag is unset at the read and the run does not
\* throw.
C7_ZeroIterations ==
    times = 0 =>
        /\ \A w \in Workers : nclaims[w] = 0 /\ nscale[w] = 0
        /\ \A w \in Workers :
              (wpc[w] \in {"fail", "done"} /\ ctorFailed[w] = 0) => exhausted[w]
        /\ (Joined /\ NoCtorFailure) => (~RunFailed(error) /\ counter = c0 - n)
        /\ Thrown => ~NoCtorFailure

C7_Witness ==
    /\ times = 0
    /\ epc = "for_test"
    /\ NoCtorFailure
    /\ Len(reports) = MaxThreads
    /\ \A w \in Workers : exhausted[w]

\* C8: in a run whose counter starts at c0 >= 0 at most c0 units are claimed,
\* never more calls are made than units claimed, and a worker that has seen a
\* pre-decrement value <= 0 claims nothing and calls nothing afterwards.
C8_ClaimsBounded ==
    c0 >= 0 => (Total(nclaims) <= c0 /\ Total(nscale) <= Total(nclaims))

C8_Step ==
    \A w \in Workers :
        (c0 >= 0 /\ exhausted[w] /\ runs' = runs) =>
            (nscale'[w] = nscale[w] /\ nclaims'[w] = nclaims[w] /\ exhausted'[w])

C8_NoClaimPastZero == []C8_ClaimsBounded /\ [][C8_Step]_vars

C8_Witness ==
    /\ Joined
    /\ c0 = MaxTimes * MaxThreads
    /\ Total(nclaims) = c0
    /\ \E w \in Workers : scaleFailed[w]
    /\ \E w \in Workers : exhausted[w]

\* C9: within a run whose counter starts at c0 >= 0 the counter never
\* increases, and the successful claims have observed pairwise different
\* values, all of them in 1 .. c0.
C9_DistinctClaims ==
    c0 >= 0 =>
        /\ Cardinality(claimedVals) = Total(nclaims)
        /\ claimedVals \subseteq 1 .. c0

C9_Step == (c0 >= 0 /\ runs' = runs) => counter' <= counter

C9_MonotoneExclusive == []C9_DistinctClaims /\ [][C9_Step]_vars

C9_Witness ==
    /\ c0 = MaxTimes * MaxThreads
    /\ \A w \in Workers : nclaims[w] > 0 /\ wpc[w] = "done"
    /\ counter = 0 - MaxThreads

\* C10: a terminated worker has executed its release exactly once and holds
\* nothing any more, a worker that has not terminated has not released, every
\* sws_scale call was made with the worker's complete, unreleased context, and
\* a worker's context changes only in that worker's own steps.
Holds(w) ==
    \/ sws[w] = "live"
    \/ src_frame[w] \in {"alloc", "buf"}
    \/ dst_frame[w] \in {"alloc", "buf"}

C10_ReleaseState ==
    \A w \in Workers :
        /\ wpc[w] = "done" => (released[w] = 1 /\ ~Holds(w))
        /\ wpc[w] # "done" => released[w] = 0
        /\ wpc[w] = "scale" => ContextReady(w)
        /\ ~lateScale[w]

C10_Step ==
    \A w \in Workers :
        (runs' = runs /\ <<sws[w], src_frame[w], dst_frame[w]>>
                            # <<sws'[w], src_frame'[w], dst_frame'[w]>>)
            => /\ wpc'[w] # wpc[w]
               /\ \A v \in Workers \ {w} :
                     /\ wpc'[v] = wpc[v]
                     /\ <<sws[v], src_frame[v], dst_frame[v]>>
                            = <<sws'[v], src_frame'[v], dst_frame'[v]>>

C10_ReleaseOnce == []C10_ReleaseState /\ [][C10_Step]_vars

C10_Witness ==
    /\ Joined
    /\ n = 2
    /\ ctorFailed[0] = 4 /\ released[0] = 1
    /\ sws[0] = "freed" /\ src_frame[0] = "freed" /\ dst_frame[0] = "freed"
    /\ scaleFailed[1] /\ released[1] = 1 /\ ~Holds(1)

\* thread count of the latest run started (0: none yet)
RunN == IF runs = <<>> THEN 0 ELSE runs[Len(runs)]

\* every thread of the latest run has returned from thread_target, and no
\* other thread exists
AllTerminated ==
    \A w \in Workers : wpc[w] = (IF w < RunN THEN "done" ELSE "none")

\* C11: whenever the timer is stopped, execute is at or past the read of the
\* error flag, or the quotient has been printed, every worker of the run has
\* terminated; and the steps that stop the timer, print a report block or write
\* the failure line are taken only from such states.
C11_State ==
    (timer = "stopped" \/ epc \in {"check", "thrown", "unwound"} \/ fps.printed)
        => AllTerminated

C11_Step ==
    (timer' # timer /\ timer' = "stopped") \/ reports' # reports \/ stderr_log' # stderr_log
        => (AllTerminated /\ wpc' = wpc)

C11_ReadAfterJoin == []C11_State /\ [][C11_Step]_vars

C11_Witness ==
    /\ epc = "thrown"
    /\ timer = "stopped"
    /\ RunN = MaxThreads
    /\ \A w \in Workers : wpc[w] = "done"
    /\ stderr_log # <<>>

\* C12: a run starts with the error flag 0; the flag is 0 as long as no worker
\* has stored, non-zero as soon as one has, and no step of the run takes it
\* from a non-zero value back to 0.
C12_State ==
    /\ (\A w \in Workers : ~stored[w]) => error = 0
    /\ (\E w \in Workers : stored[w]) => error # 0

C12_Step ==
    /\ runs' # runs => error' = 0
    /\ (error # 0 /\ runs' = runs) => error' # 0

C12_FlagSticks == []C12_State /\ [][C12_Step]_vars

C12_Witness ==
    /\ Joined
    /\ stored[0] /\ stored[1]
    /\ err[0] # err[1]
    /\ error = err[0]

\* C13: a worker whose sws_scale call failed is on its way out or has
\* terminated, the failed call is the last one it made, and from then on it
\* neither decrements the counter (no claim, no exhausted test) nor calls
\* sws_scale again in that run.
C13_State ==
    \A w \in Workers :
        scaleFailed[w] =>
            /\ wpc[w] \in {"fail", "done"}
            /\ ~exhausted[w]
            /\ nscale[w] = nclaims[w]

C13_Step ==
    \A w \in Workers :
        (scaleFailed[w] /\ runs' = runs) =>
            /\ scaleFailed'[w]
            /\ nclaims'[w] = nclaims[w]
            /\ exhausted'[w] = exhausted[w]
            /\ nscale'[w] = nscale[w]

C13_NoRetry == []C13_State /\ [][C13_Step]_vars

C13_Witness ==
    /\ Joined
    /\ RunN = 1
    /\ times = MaxTimes
    /\ scaleFailed[0] /\ nscale[0] = 2
    /\ counter = c0 - 2

\* a thread that has been started and has not yet returned
Alive(w) == wpc[w] \notin {"none", "done"}

\* C14: threads are alive only between the spawn loop and the join loop of
\* their own iteration; an iteration starts only when every thread of the one
\* before has returned and been joined, and it starts with no thread, with the
\* counter set for its own n and with the flag 0; counter and flag are written
\* by workers only inside that window.
C14_State ==
    /\ (\E w \in Workers : Alive(w)) => epc \in {"spawn", "join"}
    /\ \A w \in Workers : (Alive(w) \/ wpc[w] = "done") => w < RunN
    /\ (epc = "spawn" /\ nn = 0) => wpc = NoThread

C14_Step ==
    /\ runs' # runs =>
          /\ AllTerminated
          /\ jn = RunN
          /\ wpc' = NoThread
          /\ counter' = InitCounter(times, n') /\ c0' = counter'
          /\ error' = 0
          /\ runs' = Append(runs, n')
    /\ (runs' = runs /\ <<counter, error>> # <<counter', error'>>)
          => epc \in {"spawn", "join"}

C14_RunsDoNotOverlap == []C14_State /\ [][C14_Step]_vars

C14_Witness ==
    /\ epc = "spawn" /\ nn = 0
    /\ runs = <<1, 2>>
    /\ Len(reports) = 1
    /\ times = MaxTimes
    /\ counter = InitCounter(times, 2)
    /\ error = 0

\* ------------------------------------------------------------ fair scheduling
\* a step of main / execute (the coordinating thread)
ExecStep ==
    \/ MainCallExecute
    \/ ExecEntry
    \/ ExecForTest
    \/ ExecSpawn
    \/ ExecJoin
    \/ ExecCheck
    \/ MainCatch
    \/ MainReturn

\* a step of the thread running thread_target for worker w
WorkerStep(w) == WConstruct(w) \/ WClaim(w) \/ WScale(w) \/ WExit(w)

\* every thread that can take a step eventually takes one, and every call
\* into the libraries returns (each call is a single step)
FairSpec ==
    /\ Init
    /\ [][Next]_vars
    /\ WF_vars(ExecStep)
    /\ \A w \in Workers : WF_vars(WorkerStep(w))

\* C15: under fair scheduling every started worker eventually returns, every
\* join loop eventually completes, and the sweep eventually reaches Completed
\* or Failed.
C15_Terminates ==
    /\ \A w \in Workers : Alive(w) ~> (wpc[w] = "done")
    /\ (epc = "join") ~> (epc = "check")
    /\ <>(DriverState \in {"Completed", "Failed"})

C15_Witness ==
    /\ mpc = "done"
    /\ exit_code = 0
    /\ threads = 0
    /\ times = MaxTimes
    /\ runs = <<1, 2>>
    /\ \A w \in Workers : exhausted[w]

\* C16: during a run the value its counter was initialised with is the
\* mathematical product times * n.
C16_CounterIsProduct ==
    epc \in {"spawn", "join", "check"} => c0 = times * n

\* C17: the quotient of line 120 is computed only when the elapsed time of the
\* run is greater than zero.
C17_DivisionGuarded ==
    fps.printed => elapsed > 0

\* number of workers that have left the loop through `break'
NumExhausted == Cardinality({w \in Workers : exhausted[w]})

\* C18: in a run of N workers whose counter starts at c0 >= 0 the counter is
\* c0 less the successful claims and the (at most one per worker) failed
\* tests, hence never below -N; and it is exactly -N once all N workers have
\* left through `break'.
C18_OvershootBounded ==
    c0 >= 0 =>
        /\ counter = c0 - Total(nclaims) - NumExhausted
        /\ counter >= 0 - RunN
        /\ (Joined /\ \A w \in Workers : w < RunN => exhausted[w]) => counter = 0 - RunN

C18_Witness ==
    /\ Joined
    /\ RunN = MaxThreads
    /\ times = 2 ^ (IntBits - 1)
    /\ c0 = 0
    /\ \A w \in Workers : exhausted[w]
    /\ counter = 0 - MaxThreads

\* worker w met a failing library call in this run
RealFailure(w) == ctorFailed[w] # 0 \/ scaleFailed[w]

\* C19: the flag is non-zero only if some worker of the run met a failing
\* call; only such a worker ever stores; a worker that left through `break'
\* never stores; and a joined run without any failing call has the flag 0, is
\* not thrown and gets its report block.
C19_State ==
    /\ error # 0 => \E w \in Workers : RealFailure(w)
    /\ \A w \in Workers : stored[w] => RealFailure(w)
    /\ \A w \in Workers : exhausted[w] => ~stored[w]
    /\ (Joined /\ NoCtorFailure /\ NoScaleFailure) => ~RunFailed(error)
    /\ Thrown => \E w \in Workers : RealFailure(w)

C19_Step ==
    (Joined /\ NoCtorFailure /\ NoScaleFailure /\ epc' # epc)
        => (epc' = "for_test" /\ Len(reports') = Len(reports) + 1)

C19_NoSpuriousFailure == []C19_State /\ [][C19_Step]_vars

C19_Witness ==
    /\ epc = "for_test"
    /\ runs = <<MaxThreads>>
    /\ Len(reports) = 1
    /\ times = MaxTimes
    /\ NoCtorFailure /\ NoScaleFailure
    /\ \A w \in Workers : exhausted[w] /\ ~stored[w] /\ nscale[w] > 0
    /\ error = 0

\* C20: in a joined run of N workers with times * N within the non-negative
\* range of the counter, if some worker left through `break' then all
\* times * N units were claimed and exactly times * N sws_scale calls were
\* made (failed ones included), whatever failures the other workers met and
\* whether or not the flag was set meanwhile.
C20_AllUnitsClaimed ==
    (Joined /\ times * RunN <= IntMax /\ \E w \in Workers : exhausted[w])
        => (Total(nclaims) = times * RunN /\ Total(nscale) = times * RunN)

C20_Witness ==
    /\ Joined
    /\ RunN = 2
    /\ times = MaxTimes
    /\ ctorFailed[0] # 0 /\ stored[0]
    /\ RunFailed(error)
    /\ exhausted[1]
    /\ nscale[1] = times * RunN

====
